---- MODULE Spec2Model ----
(***************************************************************************)
(* A model of uiautomator2/__init__.py: the Selector dictionary and its    *)
(* child/sibling relation lists, the JSON-RPC error mapping of             *)
(* AutomatorServer.jsonrpc_call, the gesture and orientation methods of    *)
(* Session, the polling loop of AutomatorServer.app_install, and the      *)
(* UiObject operations that wait for the element before they act.         *)
(*                                                                         *)
(* Python objects are modelled by reference: a Selector is an index into   *)
(* `heap`, and a nested selector list holds indices, so that aliasing       *)
(* between a selector and its clone is expressible.                        *)
(***************************************************************************)
EXTENDS Integers, Sequences, FiniteSets, TLC

VARIABLES
    py,        \* the interpreter the module runs on: 2 (six.PY2) or 3 (six.PY3)
    heap,      \* the Selector objects, by allocation order
    origin,    \* origin[i]: the object heap[i] was cloned from, 0 when constructed
    last,      \* the operation that ran last, its arguments and its outcome
    calls,     \* the requests the last operation sent to the remote
    rotation,  \* the stub remote's displayRotation
    inst       \* the app_install frame: locals, loop position, responses seen

vars == <<py, heap, origin, last, calls, rotation, inst>>

-----------------------------------------------------------------------------
(* Bounds of the model *)

\* SpecSelector: the size of the heap, Selector objects plus relation tags
MaxSize == 3

\* SpecClone: the number of Selector objects allocated in a run
MaxCloneObjs == 4

-----------------------------------------------------------------------------
(* Python values *)

\* int/bool, text (unicode on Python 2, str on Python 3) and byte strings
\* (str on Python 2, bytes on Python 3); strings are sequences of code units.
IntVal(n) == [t |-> "int", v |-> n]
TextVal(s) == [t |-> "text", v |-> s]
BytesVal(s) == [t |-> "bytes", v |-> s]

\* UTF-8 decoding of a byte sequence (one- and two-byte forms; longer forms
\* and stray continuation bytes are rejected).  <<-1>> marks a decode error.
RECURSIVE Utf8Decode(_)
Utf8Decode(b) ==
    IF b = <<>> THEN <<>>
    ELSE IF b[1] < 128
         THEN LET r == Utf8Decode(Tail(b))
              IN IF r = <<-1>> THEN r ELSE <<b[1]>> \o r
    ELSE IF b[1] >= 194 /\ b[1] < 224 /\ Len(b) >= 2 /\ b[2] >= 128 /\ b[2] < 192
         THEN LET r == Utf8Decode(Tail(Tail(b)))
              IN IF r = <<-1>> THEN r
                 ELSE <<(b[1] - 192) * 64 + (b[2] - 128)>> \o r
    ELSE <<-1>>

\* U(x): on Python 3 x itself; on Python 2 a str (byte string) is decoded
\* from UTF-8, which raises UnicodeDecodeError on invalid input.
UFails(x) == py = 2 /\ x.t = "bytes" /\ Utf8Decode(x.v) = <<-1>>

U(x) == IF py = 2 /\ x.t = "bytes" THEN TextVal(Utf8Decode(x.v)) ELSE x

\* Python's == between two values: equal type and content; on Python 2 a
\* byte string also equals the text it decodes to as ASCII.
IsAscii(s) == \A i \in 1..Len(s) : s[i] < 128

PyEq(a, b) ==
    \/ a = b
    \/ /\ py = 2
       /\ {a.t, b.t} = {"bytes", "text"}
       /\ a.v = b.v
       /\ IsAscii(a.v)

-----------------------------------------------------------------------------
(* Selector: the field table and the mask arithmetic *)

\* Selector.__fields: field name -> reserved mask bit
Fields ==
    [f \in {"text", "textContains", "textMatches", "textStartsWith",
            "className", "classNameMatches", "description",
            "descriptionContains", "descriptionMatches",
            "descriptionStartsWith", "checkable", "checked", "clickable",
            "longClickable", "scrollable", "enabled", "focusable", "focused",
            "selected", "packageName", "packageNameMatches", "resourceId",
            "resourceIdMatches", "index", "instance"} |->
        CASE f = "text" -> 1
          [] f = "textContains" -> 2
          [] f = "textMatches" -> 4
          [] f = "textStartsWith" -> 8
          [] f = "className" -> 16
          [] f = "classNameMatches" -> 32
          [] f = "description" -> 64
          [] f = "descriptionContains" -> 128
          [] f = "descriptionMatches" -> 256
          [] f = "descriptionStartsWith" -> 512
          [] f = "checkable" -> 1024
          [] f = "checked" -> 2048
          [] f = "clickable" -> 4096
          [] f = "longClickable" -> 8192
          [] f = "scrollable" -> 16384
          [] f = "enabled" -> 32768
          [] f = "focusable" -> 65536
          [] f = "focused" -> 131072
          [] f = "selected" -> 262144
          [] f = "packageName" -> 524288
          [] f = "packageNameMatches" -> 1048576
          [] f = "resourceId" -> 2097152
          [] f = "resourceIdMatches" -> 4194304
          [] f = "index" -> 8388608
          [] f = "instance" -> 16777216]

\* a | b on non-negative integers
RECURSIVE BitOr(_, _)
BitOr(a, b) ==
    IF a = 0 THEN b
    ELSE IF b = 0 THEN a
    ELSE (IF a % 2 = 1 \/ b % 2 = 1 THEN 1 ELSE 0) + 2 * BitOr(a \div 2, b \div 2)

\* the mutant of BitAndNot: a & b
RECURSIVE BitAnd(_, _)
BitAnd(a, b) ==
    IF a = 0 \/ b = 0 THEN 0
    ELSE (IF a % 2 = 1 /\ b % 2 = 1 THEN 1 ELSE 0) + 2 * BitAnd(a \div 2, b \div 2)

\* a & ~b on non-negative integers
RECURSIVE BitAndNot(_, _)
BitAndNot(a, b) ==
    IF a = 0 THEN 0
    ELSE (IF a % 2 = 1 /\ b % 2 = 0 THEN 1 ELSE 0) + 2 * BitAndNot(a \div 2, b \div 2)

HasBit(m, b) == (m \div b) % 2 = 1

-----------------------------------------------------------------------------
(* Selector: the dictionary operations on one object *)

NoneVal == [t |-> "none", v |-> <<>>]

EmptyDict == [k \in {} |-> NoneVal]

DictPut(d, k, v) == [x \in (DOMAIN d) \cup {k} |-> IF x = k THEN v ELSE d[x]]

DictDel(d, k) == [x \in (DOMAIN d) \ {k} |-> d[x]]

\* the state Selector.__init__ leaves before it applies the keyword arguments
NewSelector == [d |-> EmptyDict, mask |-> 0, tags |-> <<>>, sels |-> <<>>]

\* the mutant of SetItemRec: no check of the field name, the key is stored
SetItemUnchecked(s, k, v) ==
    IF UFails(v)
    THEN [err |-> "UnicodeDecodeError", sel |-> s]
    ELSE [err |-> "none",
          sel |-> [s EXCEPT !.d = DictPut(@, k, U(v)),
                            !.mask = IF k \in DOMAIN Fields
                                     THEN BitOr(@, Fields[k]) ELSE @]]

\* Selector.__setitem__(k, v) on the object value s: the outcome and the
\* object afterwards.  U(k) leaves an ASCII field name the same dictionary key.
SetItemRec(s, k, v) ==
    IF k \in DOMAIN Fields
    THEN IF UFails(v)
         THEN [err |-> "UnicodeDecodeError", sel |-> s]
         ELSE [err |-> "none",
               sel |-> [s EXCEPT !.d = DictPut(@, k, U(v)),
                                 !.mask = BitOr(@, Fields[k])]]
    ELSE [err |-> "ReferenceError", sel |-> s]

\* Selector.__delitem__(k): dict.__delitem__ raises KeyError for a recognized
\* field that holds no value; an unrecognized name falls through the if.
DelItemRec(s, k) ==
    IF k \in DOMAIN Fields
    THEN IF k \in DOMAIN s.d
         THEN [err |-> "none",
               sel |-> [s EXCEPT !.d = DictDel(@, k),
                                 !.mask = BitAndNot(@, Fields[k])]]
         ELSE [err |-> "KeyError", sel |-> s]
    ELSE [err |-> "none", sel |-> s]

\* the orders in which a for loop may visit the keys of a dictionary
Orders(S) ==
    {o \in [1..Cardinality(S) -> S] : \A i, j \in 1..Cardinality(S) : o[i] = o[j] => i = j}

\* the loop of Selector.__init__: self[k] = kwargs[k] for k in the order ord;
\* the first exception ends it
RECURSIVE InitLoop(_, _, _)
InitLoop(s, kwargs, ord) ==
    IF ord = <<>> THEN [err |-> "none", sel |-> s]
    ELSE LET r == SetItemRec(s, ord[1], kwargs[ord[1]])
         IN IF r.err # "none" THEN r ELSE InitLoop(r.sel, kwargs, Tail(ord))

\* Selector(**kwargs)
SelectorInit(kwargs, ord) == InitLoop(NewSelector, kwargs, ord)

-----------------------------------------------------------------------------
(* Selector: clone, on the heap *)

\* the mutant of CloneNested: the nested selectors are appended, not cloned
RECURSIVE CloneNestedShallow(_, _, _, _, _)
CloneNestedShallow(h, og, x, c, i) ==
    IF i > Len(h[x].sels) THEN [h |-> h, og |-> og]
    ELSE CloneNestedShallow([h EXCEPT ![c].sels = Append(@, h[x].sels[i])],
                            og, x, c, i + 1)

\* Selector.clone() of heap object x: the heap (and the clone-of relation)
\* after it; the clone is the object at index Len(h) + 1.  The clone is built
\* by Selector(**kwargs) from the scalar entries of x (every key is a
\* recognized field and every value has been through U, so the order of the
\* keys does not matter), then the tags are appended one by one and every
\* nested selector is cloned in turn.
RECURSIVE CloneRec(_, _, _)
RECURSIVE CloneNested(_, _, _, _, _)
CloneNested(h, og, x, c, i) ==
    IF i > Len(h[x].sels) THEN [h |-> h, og |-> og]
    ELSE LET k == Len(h) + 1
             r == CloneRec(h, og, h[x].sels[i])
         IN CloneNested([r.h EXCEPT ![c].sels = Append(@, k)], r.og, x, c, i + 1)

CloneRec(h, og, x) ==
    LET c == Len(h) + 1
        kwargs == h[x].d
        init == SelectorInit(kwargs, CHOOSE o \in Orders(DOMAIN kwargs) : TRUE)
    IN CloneNested(Append(h, [init.sel EXCEPT !.tags = h[x].tags]),
                   Append(og, x), x, c, 1)

\* the objects reachable from x through the nested-selector lists, x included
RECURSIVE Reach(_, _)
Reach(h, x) ==
    {x} \cup UNION {Reach(h, h[x].sels[i]) : i \in 1..Len(h[x].sels)}

\* the value of x with its nested selectors expanded: what the remote is sent
RECURSIVE Deep(_, _)
Deep(h, x) ==
    [d |-> h[x].d, mask |-> h[x].mask, tags |-> h[x].tags,
     sels |-> [i \in 1..Len(h[x].sels) |-> Deep(h, h[x].sels[i])]]

-----------------------------------------------------------------------------
(* The initial state *)

\* what `last` holds: the operation, the exception it raised ("none" when
\* it returned) and what it returned
Last(op, err, ret) == [op |-> op, err |-> err, ret |-> ret]

\* no install is running
InstIdle ==
    [pc |-> "idle", interval |-> 0, next_refresh |-> 0, now |-> 0,
     polled |-> <<>>, error |-> "absent"]

InitSelector ==
    /\ py \in {2, 3}
    /\ heap = <<>>
    /\ origin = <<>>
    /\ last = Last("start", "none", 0)
    /\ calls = <<>>
    /\ rotation = 0
    /\ inst = InstIdle

-----------------------------------------------------------------------------
(* Selector: the operations *)

Objs == 1..Len(heap)

\* Selector(**kwargs) by the caller
Construct(kwargs, ord) ==
    LET r == SelectorInit(kwargs, ord)
    IN /\ IF r.err = "none"
          THEN /\ heap' = Append(heap, r.sel)
               /\ origin' = Append(origin, 0)
               /\ last' = Last("Selector", "none", Len(heap) + 1)
          ELSE /\ UNCHANGED <<heap, origin>>
               /\ last' = Last("Selector", r.err, 0)
       /\ calls' = <<>>
       /\ UNCHANGED <<py, rotation, inst>>

\* selector[k] = v
SetItem(x, k, v) ==
    LET r == SetItemRec(heap[x], k, v)
    IN /\ heap' = [heap EXCEPT ![x] = r.sel]
       /\ last' = Last("set", r.err, 0)
       /\ calls' = <<>>
       /\ UNCHANGED <<py, origin, rotation, inst>>

\* del selector[k]
DelItem(x, k) ==
    LET r == DelItemRec(heap[x], k)
    IN /\ heap' = [heap EXCEPT ![x] = r.sel]
       /\ last' = Last("del", r.err, 0)
       /\ calls' = <<>>
       /\ UNCHANGED <<py, origin, rotation, inst>>

\* selector.clone()
Clone(x) ==
    LET r == CloneRec(heap, origin, x)
    IN /\ heap' = r.h
       /\ origin' = r.og
       /\ last' = Last("clone", "none", Len(heap) + 1)
       /\ calls' = <<>>
       /\ UNCHANGED <<py, rotation, inst>>

\* the body shared by Selector.child and Selector.sibling, on object x of
\* heap h: the tag is appended, then Selector(**kwargs) is constructed and
\* appended; an exception of the constructor leaves the tag behind
Relate(h, og, x, tag, kwargs, ord) ==
    LET h1 == [h EXCEPT ![x].tags = Append(@, tag)]
        r == SelectorInit(kwargs, ord)
    IN IF r.err = "none"
       THEN [err |-> "none",
             h |-> Append([h1 EXCEPT ![x].sels = Append(@, Len(h) + 1)], r.sel),
             og |-> Append(og, 0)]
       ELSE [err |-> r.err, h |-> h1, og |-> og]

\* selector.child(**kwargs); returns self
Child(x, kwargs, ord) ==
    LET r == Relate(heap, origin, x, "child", kwargs, ord)
    IN /\ heap' = r.h
       /\ origin' = r.og
       /\ last' = Last("child", r.err, IF r.err = "none" THEN x ELSE 0)
       /\ calls' = <<>>
       /\ UNCHANGED <<py, rotation, inst>>

\* selector.sibling(**kwargs); returns self
Sibling(x, kwargs, ord) ==
    LET r == Relate(heap, origin, x, "sibling", kwargs, ord)
    IN /\ heap' = r.h
       /\ origin' = r.og
       /\ last' = Last("sibling", r.err, IF r.err = "none" THEN x ELSE 0)
       /\ calls' = <<>>
       /\ UNCHANGED <<py, rotation, inst>>

\* UiObject.child / UiObject.sibling on a UiObject whose selector is x:
\* self.selector.clone().child(**kwargs).  When child raises, the clone is
\* referenced by nothing and is dropped.
UiObjectRelate(x, tag, kwargs, ord) ==
    LET c == CloneRec(heap, origin, x)
        r == Relate(c.h, c.og, Len(heap) + 1, tag, kwargs, ord)
    IN /\ IF r.err = "none"
          THEN /\ heap' = r.h
               /\ origin' = r.og
               /\ last' = Last("UiObject." \o tag, "none", Len(heap) + 1)
          ELSE /\ UNCHANGED <<heap, origin>>
               /\ last' = Last("UiObject." \o tag, r.err, 0)
       /\ calls' = <<>>
       /\ UNCHANGED <<py, rotation, inst>>

\* UiObject.__getitem__(index): the clone gets instance = index
UiObjectGetItem(x, index) ==
    LET c == CloneRec(heap, origin, x)
        r == SetItemRec(c.h[Len(heap) + 1], "instance", IntVal(index))
    IN /\ heap' = [c.h EXCEPT ![Len(heap) + 1] = r.sel]
       /\ origin' = c.og
       /\ last' = Last("UiObject.getitem", r.err, Len(heap) + 1)
       /\ calls' = <<>>
       /\ UNCHANGED <<py, rotation, inst>>

-----------------------------------------------------------------------------
(* SpecSelector: every Selector operation, on a small heap *)

\* the (name, value) pairs passed by the caller.  Recognized fields: text
\* with the bytes of e-acute in UTF-8 and with a byte string that is not
\* valid UTF-8, instance with an integer.  Unrecognized names: the three
\* bookkeeping keys and a name that is no key at all.
Items ==
    {<<"text", BytesVal(<<195, 169>>)>>, <<"text", BytesVal(<<195>>)>>,
     <<"instance", IntVal(0)>>,
     <<"mask", IntVal(0)>>, <<"childOrSibling", BytesVal(<<195, 169>>)>>,
     <<"childOrSiblingSelector", IntVal(0)>>, <<"bogus", BytesVal(<<195>>)>>}

Names == {it[1] : it \in Items}

\* keyword arguments: none, or one name with one value
KwargsSet == {EmptyDict} \cup {[x \in {it[1]} |-> it[2]] : it \in Items}

Tags == {"child", "sibling"}

\* the relation tags in the heap
RECURSIVE TagCount(_)
TagCount(h) == IF h = <<>> THEN 0 ELSE Len(h[1].tags) + TagCount(Tail(h))

\* the size of a heap: its objects plus their relation tags
Size(h) == Len(h) + TagCount(h)

NextSelector ==
    \/ \E kwargs \in KwargsSet : \E ord \in Orders(DOMAIN kwargs) :
           Size(heap) < MaxSize /\ Construct(kwargs, ord)
    \/ \E x \in Objs, it \in Items : SetItem(x, it[1], it[2])
    \/ \E x \in Objs, k \in Names : DelItem(x, k)
    \/ \E x \in Objs, kwargs \in KwargsSet : \E ord \in Orders(DOMAIN kwargs) :
           Child(x, kwargs, ord) /\ Size(heap') <= MaxSize
    \/ \E x \in Objs, kwargs \in KwargsSet : \E ord \in Orders(DOMAIN kwargs) :
           Sibling(x, kwargs, ord) /\ Size(heap') <= MaxSize

SpecSelector == InitSelector /\ [][NextSelector]_vars

-----------------------------------------------------------------------------
(* SpecClone: the Selector operations with clone and the UiObject methods  *)
(* that clone, on a heap large enough to clone a selector that has a       *)
(* nested selector and to go on changing both.  The caller constructs one  *)
(* Selector and takes one clone; every other object is a nested selector.  *)

\* one recognized field with one value
CloneItems == {<<"text", BytesVal(<<195, 169>>)>>}

CloneKwargs == {EmptyDict} \cup {[x \in {it[1]} |-> it[2]] : it \in CloneItems}

\* the objects that sit in no nested-selector list
Roots(h) == (1..Len(h)) \ UNION {{h[x].sels[i] : i \in 1..Len(h[x].sels)} : x \in 1..Len(h)}

\* the clones made so far: the roots that were cloned from another object
Clones(h, og) == {c \in Roots(h) : og[c] # 0}

\* the heap stays within its bound, and the run takes one clone
Fits(h, og) == Len(h) <= MaxCloneObjs /\ Cardinality(Clones(h, og)) <= 1

NextClone ==
    \/ \E kwargs \in CloneKwargs : \E ord \in Orders(DOMAIN kwargs) :
           heap = <<>> /\ Construct(kwargs, ord)
    \/ \E x \in Objs, it \in CloneItems : SetItem(x, it[1], it[2])
    \/ \E x \in Objs, it \in CloneItems : DelItem(x, it[1])
    \/ \E x \in Objs : Clone(x) /\ Fits(heap', origin')
    \/ \E x \in Objs, kwargs \in CloneKwargs : \E ord \in Orders(DOMAIN kwargs) :
           Child(x, kwargs, ord) /\ Fits(heap', origin')
    \/ \E x \in Objs, tag \in Tags, kwargs \in CloneKwargs : \E ord \in Orders(DOMAIN kwargs) :
           UiObjectRelate(x, tag, kwargs, ord) /\ Fits(heap', origin')
    \/ \E x \in Objs, index \in {0} :
           UiObjectGetItem(x, index) /\ Fits(heap', origin')

SpecClone == InitSelector /\ [][NextClone]_vars

-----------------------------------------------------------------------------
(* AutomatorServer.jsonrpc_call: the stub remote's answers and the mapping *)
(* of an answer to a return value or an exception                          *)

\* error.data: absent (None), or a JSON object with the given keys, of
\* which exceptionTypeName has the given value
NoData == [present |-> FALSE, keys |-> {}, exceptionTypeName |-> ""]

Data(keys, name) == [present |-> TRUE, keys |-> keys, exceptionTypeName |-> name]

DataSet ==
    {NoData,
     Data({}, ""),
     Data({"exceptionMessage"}, ""),
     Data({"exceptionTypeName"}, "java.lang.IllegalStateException"),
     Data({"exceptionTypeName"}, "com.android.uiautomator.core.UiObjectNotFoundException")}

\* the error codes the stub answers with: the five named codes, the ends and
\* the inside of the server-error band, its two neighbours, and two others
Codes == {-32700, -32600, -32601, -32602, -32603,
          -32100, -32099, -32050, -32000, -31999, 0, 1}

\* an HTTP answer: the status, and for a JSON body whether "error" is absent,
\* an empty object or an object with a code, a message and optional data
Resp(status, error, code, data) ==
    [status |-> status, error |-> error, code |-> code, data |-> data]

Responses ==
    {Resp(500, "absent", 0, NoData), Resp(200, "absent", 0, NoData),
     Resp(200, "empty", 0, NoData)}
    \cup {Resp(200, "object", c, d) : c \in Codes, d \in DataSet}

\* the answers the gesture and orientation methods are driven with
FewResponses ==
    {Resp(200, "absent", 0, NoData), Resp(500, "absent", 0, NoData),
     Resp(200, "object", -32601, NoData)}

\* p in s, for Python strings
Contains(s, p) ==
    \E i \in 1..(Len(s) - Len(p) + 1) : SubSeq(s, i, i + Len(p) - 1) = p

\* JsonRpcError.format_errcode
FormatErrcode(errcode) ==
    CASE errcode = -32700 -> "Parse error"
      [] errcode = -32600 -> "Invalid Request"
      [] errcode = -32601 -> "Method not found"
      [] errcode = -32602 -> "Invalid params"
      [] errcode = -32603 -> "Internal error"
      [] OTHER -> IF errcode >= -32099 /\ errcode <= -32000
                  THEN "Server error" ELSE "Unknown error"

\* how a call ends: the exception raised ("none" when it returns), what the
\* exception carries, and the value returned
Outcome(err, code, data, ret) ==
    [err |-> err, code |-> code,
     category |-> IF err \in {"JsonRpcError", "UiObjectNotFoundError"}
                  THEN FormatErrcode(code) ELSE "",
     data |-> data, ret |-> ret]

\* raise JsonRpcError(error)
RaiseJsonRpcError(resp) == Outcome("JsonRpcError", resp.code, resp.data, "None")

\* the branch for a code in -32099..-32000.  exceptionName is data when data
\* is None or an empty object, else data.get('exceptionTypeName', '');
\* `in None` raises TypeError, `in {}` is False; on a match the raise
\* statement evaluates the undefined name `message`, which raises NameError.
ServerErrorBranch(resp) ==
    IF ~resp.data.present
    THEN Outcome("TypeError", 0, NoData, "None")
    ELSE IF resp.data.keys = {}
    THEN RaiseJsonRpcError(resp)
    ELSE IF Contains(IF "exceptionTypeName" \in resp.data.keys
                     THEN resp.data.exceptionTypeName ELSE "",
                     "UiObjectNotFoundException")
    THEN Outcome("NameError", 0, NoData, "None")
    ELSE RaiseJsonRpcError(resp)

\* jsonrpc_call(method, params) answered by resp, where result is the
\* "result" member of a successful answer
JsonRpcCall(resp, result) ==
    IF resp.status # 200
    THEN Outcome("UiaError", 0, NoData, "None")
    ELSE IF resp.error \in {"absent", "empty"}
    THEN Outcome("none", 0, NoData, result)
    ELSE IF -32099 <= resp.code /\ resp.code <= -32000
    THEN ServerErrorBranch(resp)
    ELSE RaiseJsonRpcError(resp)

\* the request jsonrpc_call posts
Request(method, params) == [method |-> method, params |-> params]

\* what `last` holds for a method that makes one call
RpcLast(op, args, resp, out) ==
    [op |-> op, args |-> args, resp |-> resp, err |-> out.err, ret |-> out.ret,
     code |-> out.code, category |-> out.category, data |-> out.data]

InitSession ==
    /\ py \in {2, 3}
    /\ heap = <<>>
    /\ origin = <<>>
    /\ last = Last("start", "none", 0)
    /\ calls = <<>>
    /\ rotation \in 0..3
    /\ inst = InstIdle

\* Session.tap(x, y) and its alias click: jsonrpc.click(x, y)
Tap(x, y, resp) ==
    /\ calls' = <<Request("click", <<x, y>>)>>
    /\ last' = RpcLast("tap", <<x, y>>, resp, JsonRpcCall(resp, "True"))
    /\ UNCHANGED <<py, heap, origin, rotation, inst>>

\* Session.info: jsonrpc.deviceInfo()
Info(resp) ==
    /\ calls' = <<Request("deviceInfo", <<>>)>>
    /\ last' = RpcLast("info", <<>>, resp,
                       JsonRpcCall(resp, [displayRotation |-> rotation]))
    /\ UNCHANGED <<py, heap, origin, rotation, inst>>

NextRpc ==
    \/ \E pt \in {<<100, 200>>, <<0, 0>>}, resp \in Responses : Tap(pt[1], pt[2], resp)
    \/ \E resp \in Responses : Info(resp)

SpecRpc == InitSession /\ [][NextRpc]_vars

-----------------------------------------------------------------------------
(* Session: the coordinate gestures *)

\* durations are whole milliseconds 0..MaxMs, plus the default and one second
MaxMs == 12

Durations == 0..MaxMs \cup {500, 1000}

\* the mutant of DurationSteps: the product rounded to the nearest integer
DurationStepsRounded(ms) == (ms * 200 + 500) \div 1000

\* int(duration*200) for a duration of ms milliseconds: the product truncated
\* toward zero.  For the durations above the floating-point product lies in
\* the same unit interval as the exact one.
DurationSteps(ms) == (ms * 200) \div 1000

\* int(duration)*200 of swipePoints: the duration is truncated first
SwipePointsSteps(ms) == (ms \div 1000) * 200

\* Session.swipe(fx, fy, tx, ty, duration)
Swipe(fx, fy, tx, ty, ms, resp) ==
    /\ calls' = <<Request("swipe", <<fx, fy, tx, ty, DurationSteps(ms)>>)>>
    /\ last' = RpcLast("swipe", [from |-> <<fx, fy>>, to |-> <<tx, ty>>, ms |-> ms],
                       resp, JsonRpcCall(resp, "True"))
    /\ UNCHANGED <<py, heap, origin, rotation, inst>>

\* Session.long_click(x, y, duration): a swipe to the point one pixel away
LongClick(x, y, ms, resp) ==
    /\ calls' = <<Request("swipe", <<x, y, x + 1, y + 1, DurationSteps(ms)>>)>>
    /\ last' = RpcLast("long_click", [from |-> <<x, y>>, to |-> <<x, y>>, ms |-> ms],
                       resp, JsonRpcCall(resp, "True"))
    /\ UNCHANGED <<py, heap, origin, rotation, inst>>

\* Session.drag(sx, sy, ex, ey, duration)
Drag(sx, sy, ex, ey, ms, resp) ==
    /\ calls' = <<Request("drag", <<sx, sy, ex, ey, DurationSteps(ms)>>)>>
    /\ last' = RpcLast("drag", [from |-> <<sx, sy>>, to |-> <<ex, ey>>, ms |-> ms],
                       resp, JsonRpcCall(resp, "True"))
    /\ UNCHANGED <<py, heap, origin, rotation, inst>>

\* Session.swipePoints(points, duration) for two points
SwipePoints(p, q, ms, resp) ==
    /\ calls' = <<Request("swipePoints",
                          <<<<p[1], p[2], q[1], q[2]>>, SwipePointsSteps(ms)>>)>>
    /\ last' = RpcLast("swipePoints", [from |-> p, to |-> q, ms |-> ms],
                       resp, JsonRpcCall(resp, "True"))
    /\ UNCHANGED <<py, heap, origin, rotation, inst>>

\* the point pairs the gestures are driven with
Strokes == {<<<<0, 0>>, <<100, 100>>>>, <<<<5, 7>>, <<5, 7>>>>}

NextGesture ==
    \/ \E st \in Strokes, ms \in Durations, resp \in FewResponses :
          Swipe(st[1][1], st[1][2], st[2][1], st[2][2], ms, resp)
    \/ \E st \in Strokes, ms \in Durations, resp \in FewResponses :
          LongClick(st[1][1], st[1][2], ms, resp)
    \/ \E st \in Strokes, ms \in Durations, resp \in FewResponses :
          Drag(st[1][1], st[1][2], st[2][1], st[2][2], ms, resp)
    \/ \E st \in Strokes, ms \in Durations, resp \in FewResponses :
          SwipePoints(st[1], st[2], ms, resp)

InitGesture == InitSession /\ py = 3 /\ rotation = 0

SpecGesture == InitGesture /\ [][NextGesture]_vars

-----------------------------------------------------------------------------
(* Session: orientation *)

\* a string literal of the source: bytes on Python 2, text on Python 3
Native(s) == IF py = 2 THEN BytesVal(s) ELSE TextVal(s)

\* Session.__orientation, the strings as their character codes:
\* (0, "natural", "n", 0), (1, "left", "l", 90),
\* (2, "upsidedown", "u", 180), (3, "right", "r", 270)
Orientation ==
    << <<IntVal(0), Native(<<110, 97, 116, 117, 114, 97, 108>>),
         Native(<<110>>), IntVal(0)>>,
       <<IntVal(1), Native(<<108, 101, 102, 116>>),
         Native(<<108>>), IntVal(90)>>,
       <<IntVal(2), Native(<<117, 112, 115, 105, 100, 101, 100, 111, 119, 110>>),
         Native(<<117>>), IntVal(180)>>,
       <<IntVal(3), Native(<<114, 105, 103, 104, 116>>),
         Native(<<114>>), IntVal(270)>> >>

\* value in values
In(value, values) == \E j \in 1..Len(values) : PyEq(value, values[j])

\* the mutant of SetOrientationParam: the abbreviation is sent
SetOrientationAbbrev(values) == values[3]

\* values[1], the argument of jsonrpc.setOrientation
SetOrientationParam(values) == values[2]

\* the stub remote: a successful setOrientation(name) turns the display to
\* the rotation that name stands for; any other call leaves it alone
Remote(rot, request, out) ==
    IF request.method = "setOrientation" /\ out.err = "none"
       /\ \E c \in 1..4 : PyEq(Orientation[c][2], request.params[1])
    THEN (CHOOSE c \in 1..4 : PyEq(Orientation[c][2], request.params[1])) - 1
    ELSE rot

\* Session.set_orientation(value): the first entry holding the value is
\* sent; with no such entry ValueError is raised and nothing is sent
SetOrientation(value, resp) ==
    LET hits == {i \in 1..Len(Orientation) : In(value, Orientation[i])} IN
    IF hits = {}
    THEN /\ calls' = <<>>
         /\ last' = RpcLast("set_orientation", value, resp,
                            Outcome("ValueError", 0, NoData, "None"))
         /\ UNCHANGED <<py, heap, origin, rotation, inst>>
    ELSE LET values == Orientation[CHOOSE i \in hits : \A j \in hits : i <= j]
             request == Request("setOrientation", <<SetOrientationParam(values)>>)
             out == JsonRpcCall(resp, "True")
         IN /\ calls' = <<request>>
            /\ last' = RpcLast("set_orientation", value, resp,
                               [out EXCEPT !.ret = "None"])
            /\ rotation' = Remote(rotation, request, out)
            /\ UNCHANGED <<py, heap, origin, inst>>

\* Session.orientation: the name of the entry the remote's displayRotation
\* indexes
GetOrientation(resp) ==
    LET out == JsonRpcCall(resp, [displayRotation |-> rotation]) IN
    /\ calls' = <<Request("deviceInfo", <<>>)>>
    /\ last' = RpcLast("orientation", <<>>, resp,
                       IF out.err = "none"
                       THEN [out EXCEPT !.ret = Orientation[out.ret.displayRotation + 1][2]]
                       ELSE out)
    /\ UNCHANGED <<py, heap, origin, rotation, inst>>

\* the values set_orientation is called with: codes and degrees, other
\* integers, the names and abbreviations as text and as bytes, other strings
OrientationValues ==
    {IntVal(n) : n \in {0, 1, 2, 3, 90, 180, 270, 4, 45, -1}}
    \cup {TextVal(Orientation[i][j].v) : i \in 1..4, j \in {2, 3}}
    \cup {BytesVal(Orientation[i][j].v) : i \in 1..4, j \in {2, 3}}
    \cup {TextVal(<<>>), TextVal(<<78>>), BytesVal(<<108, 101, 102>>)}

NextOrientation ==
    \/ \E value \in OrientationValues, resp \in FewResponses : SetOrientation(value, resp)
    \/ \E resp \in FewResponses : GetOrientation(resp)

SpecOrientation == InitSession /\ [][NextOrientation]_vars

-----------------------------------------------------------------------------
(* AutomatorServer.app_install: the polling loop *)

\* the status responses one install may be answered with
MaxPolls == 4

\* the clock is read in ticks of the loop's sleep, time.sleep(.2): five
\* ticks are one second
TicksPerSecond == 5

\* progress.get('error'): None when the field is absent, else its value
NoError == [present |-> FALSE, v |-> ""]

ErrorField(v) == [present |-> TRUE, v |-> v]

\* a status response; the sizes are present and left out of the model
Progress(message, error) == [message |-> message, error |-> error]

ProgressSet ==
    {Progress(m, e) :
        m \in {"downloading", "installing", "success installed", "verifying"},
        e \in {NoError, ErrorField(""), ErrorField("INSTALL_FAILED")}}

\* the truth value of progress.get('error')
Truthy(error) == error.present /\ error.v # ""

\* the mutant of AfterPoll: the success test placed before the error test
AfterPollSuccessFirst(progress) ==
    IF progress.message = "success installed" THEN "returned"
    ELSE IF Truthy(progress.error) THEN "raised"
    ELSE "loop"

\* the end of one iteration: raise RuntimeError, break and return True, or
\* go round again
AfterPoll(progress) ==
    IF Truthy(progress.error) THEN "raised"
    ELSE IF progress.message = "success installed" THEN "returned"
    ELSE "loop"

\* the mutant of NextRefresh: 'installing' schedules one interval, too
NextRefreshFlat(i, progress) ==
    IF progress.message \in {"downloading", "installing"} THEN i.now + i.interval
    ELSE i.next_refresh

\* next_refresh after a response, interval being left as it was set
NextRefresh(i, progress) ==
    IF progress.message = "downloading" THEN i.now + i.interval
    ELSE IF progress.message = "installing" THEN i.now + i.interval * 2
    ELSE i.next_refresh

\* app_install(url) up to the loop: the job is posted, interval = 1.0 and
\* next_refresh = time.time()
AppInstall ==
    /\ inst.pc = "idle"
    /\ inst' = [pc |-> "loop", interval |-> 1 * TicksPerSecond,
                next_refresh |-> inst.now, now |-> inst.now,
                polled |-> <<>>, error |-> NoError]
    /\ last' = Last("app_install", "running", "None")
    /\ UNCHANGED <<py, heap, origin, calls, rotation>>

\* an iteration that finds the refresh time not yet reached and sleeps
Sleep ==
    /\ inst.pc = "loop"
    /\ inst.now < inst.next_refresh
    /\ inst' = [inst EXCEPT !.now = inst.now + 1]
    /\ UNCHANGED <<py, heap, origin, last, calls, rotation>>

\* an iteration that polls the status and is answered with progress
Poll(progress) ==
    /\ inst.pc = "loop"
    /\ ~(inst.now < inst.next_refresh)
    /\ inst' = [inst EXCEPT !.polled = Append(inst.polled, progress),
                            !.next_refresh = NextRefresh(inst, progress),
                            !.error = progress.error,
                            !.pc = AfterPoll(progress)]
    /\ last' = CASE AfterPoll(progress) = "raised" ->
                      Last("app_install", "RuntimeError",
                           <<progress.error.v, progress.message>>)
                 [] AfterPoll(progress) = "returned" ->
                      Last("app_install", "none", "True")
                 [] OTHER -> last
    /\ UNCHANGED <<py, heap, origin, calls, rotation>>

NextInstall ==
    \/ AppInstall
    \/ Sleep
    \/ \E progress \in ProgressSet : Len(inst.polled) < MaxPolls /\ Poll(progress)

InitInstall == InitSession /\ py = 3 /\ rotation = 0

SpecInstall == InitInstall /\ [][NextInstall]_vars

-----------------------------------------------------------------------------
(* UiObject: the operations that wait for the element first *)

\* UiObject.wait_timeout, in seconds
WaitTimeout == 20

\* one answer of the remote: the HTTP answer, and the result it carries when
\* it is a success
Answer(resp, result) == [resp |-> resp, result |-> result]

\* the answers the UiObject methods are driven with: success, an HTTP
\* failure, an unknown method, and the remote's element-not-found error
UiResponses ==
    FewResponses
    \cup {Resp(200, "object", -32002,
               Data({"exceptionTypeName"},
                    "com.android.uiautomator.core.UiObjectNotFoundException"))}

\* what a run of RPCs comes to: the requests posted, the answers consumed,
\* and the outcome of the last one
Trace(requests, answers, out) == [calls |-> requests, answers |-> answers, out |-> out]

\* one RPC answered by a
Rpc(request, a) == Trace(<<request>>, <<a>>, JsonRpcCall(a.resp, a.result))

\* first, then rest unless first raised
Then(first, rest) ==
    IF first.out.err # "none" THEN first
    ELSE Trace(first.calls \o rest.calls, first.answers \o rest.answers, rest.out)

\* UiObject.wait(exists=True, timeout): waitForExists(selector, int(timeout*1000))
Wait(x, timeout, a) == Rpc(Request("waitForExists", <<heap[x], timeout * 1000>>), a)

\* wait_exists_wrap(fn): self.wait(timeout=self.wait_timeout), then fn
WaitExistsWrap(x, a, fn) == Then(Wait(x, WaitTimeout, a), fn)

\* the body of UiObject.tap
TapFn(x, a) == Rpc(Request("click", <<heap[x]>>), a)

\* not text
Not(text) == text = NoneVal \/ (text.t \in {"text", "bytes"} /\ text.v = <<>>)

\* the body of UiObject.set_text
SetTextFn(x, text, a) ==
    IF Not(text) THEN Rpc(Request("clearTextField", <<heap[x]>>), a)
    ELSE Rpc(Request("setText", <<heap[x], text>>), a)

\* UiObject.set_text, wrapped
SetTextWrapped(x, text, w, a) == WaitExistsWrap(x, w, SetTextFn(x, text, a))

\* the body of UiObject.clear_text: self.set_text(None), the wrapped method
ClearTextFn(x, w, a) == SetTextWrapped(x, NoneVal, w, a)

\* a / b on two integers: floor division on Python 2, a float on Python 3
FloatVal(num, den) == [t |-> "float", v |-> <<num, den>>]

Div(a, b) == IF py = 2 THEN IntVal(a \div b) ELSE FloatVal(a, b)

\* c + 1
PlusOne(c) == IF c.t = "int" THEN IntVal(c.v + 1) ELSE FloatVal(c.v[1] + c.v[2], c.v[2])

\* a rectangle of objInfo
Rect(left, top, right, bottom) ==
    [left |-> left, top |-> top, right |-> right, bottom |-> bottom]

\* the objInfo results: longClickable, visibleBounds (which may be missing)
\* and bounds
ObjInfo(longClickable, visible, visibleBounds, bounds) ==
    [longClickable |-> longClickable, visible |-> visible,
     visibleBounds |-> visibleBounds, bounds |-> bounds]

ObjInfos ==
    {ObjInfo(lc, vis, Rect(0, 0, 101, 50), Rect(0, 0, 200, 100)) :
        lc \in BOOLEAN, vis \in BOOLEAN}

\* the body of UiObject.long_click: objInfo, then longClick on the selector
\* or Session.long_click at the centre of the bounds (a swipe of the default
\* duration to the point one pixel away)
LongClickFn(x, i, a) ==
    Then(Rpc(Request("objInfo", <<heap[x]>>), i),
         IF i.result.longClickable
         THEN Rpc(Request("longClick", <<heap[x]>>), a)
         ELSE LET bounds == IF i.result.visible THEN i.result.visibleBounds
                            ELSE i.result.bounds
                  cx == Div(bounds.left + bounds.right, 2)
                  cy == Div(bounds.top + bounds.bottom, 2)
              IN Rpc(Request("swipe", <<cx, cy, PlusOne(cx), PlusOne(cy),
                                        DurationSteps(500)>>), a))

\* the body of UiObject.drag_to(x, y, duration=...)
DragToFn(x, tx, ty, ms, a) ==
    Rpc(Request("dragTo", <<heap[x], tx, ty, DurationSteps(ms)>>), a)

\* the body of UiObject.drag_to(duration=..., **kwargs): the target is
\* Selector(**kwargs), whose construction may raise
DragToSelectorFn(x, kwargs, ord, ms, a) ==
    LET r == SelectorInit(kwargs, ord) IN
    IF r.err # "none"
    THEN Trace(<<>>, <<>>, Outcome(r.err, 0, NoData, "None"))
    ELSE Rpc(Request("dragTo", <<heap[x], r.sel, DurationSteps(ms)>>), a)

\* what `last` holds for a UiObject method: the object, the arguments, the
\* answers consumed and the outcome
UiLast(op, x, args, tr) ==
    [op |-> op, obj |-> x, args |-> args, answers |-> tr.answers,
     err |-> tr.out.err, ret |-> tr.out.ret, code |-> tr.out.code,
     category |-> tr.out.category, data |-> tr.out.data]

\* a UiObject method that ran as tr
UiObjectCall(op, x, args, tr) ==
    /\ calls' = tr.calls
    /\ last' = UiLast(op, x, args, tr)
    /\ UNCHANGED <<py, heap, origin, rotation, inst>>

UiObjectTap(x, w, a) ==
    UiObjectCall("UiObject.tap", x, <<>>, WaitExistsWrap(x, w, TapFn(x, a)))

UiObjectLongClick(x, w, i, a) ==
    UiObjectCall("UiObject.long_click", x, <<>>, WaitExistsWrap(x, w, LongClickFn(x, i, a)))

UiObjectDragTo(x, tx, ty, ms, w, a) ==
    UiObjectCall("UiObject.drag_to", x, <<tx, ty, ms>>,
                 WaitExistsWrap(x, w, DragToFn(x, tx, ty, ms, a)))

UiObjectDragToSelector(x, kwargs, ord, ms, w, a) ==
    UiObjectCall("UiObject.drag_to", x, <<kwargs, ms>>,
                 WaitExistsWrap(x, w, DragToSelectorFn(x, kwargs, ord, ms, a)))

UiObjectSetText(x, text, w, a) ==
    UiObjectCall("UiObject.set_text", x, <<text>>, SetTextWrapped(x, text, w, a))

UiObjectClearText(x, w1, w2, a) ==
    UiObjectCall("UiObject.clear_text", x, <<>>, WaitExistsWrap(x, w1, ClearTextFn(x, w2, a)))

\* the answers to a wait, to objInfo and to an action
WaitAnswers == {Answer(r, b) : r \in UiResponses, b \in {"True", "False"}}

InfoAnswers == {Answer(r, i) : r \in UiResponses, i \in ObjInfos}

ActAnswers == {Answer(r, "True") : r \in UiResponses}

\* the texts set_text is called with: None, the empty string, "hi"
Texts == {NoneVal, TextVal(<<>>), TextVal(<<104, 105>>)}

\* the selectors the session is called with: d(), d(text="hi")
UiKwargs == {EmptyDict, [k \in {"text"} |-> TextVal(<<104, 105>>)]}

\* the targets of drag_to(**kwargs)
DragKwargs == {[k \in {"text"} |-> TextVal(<<104, 105>>)],
               [k \in {"bogus"} |-> IntVal(0)]}

NextUiObject ==
    \/ \E kwargs \in UiKwargs : \E ord \in Orders(DOMAIN kwargs) :
          heap = <<>> /\ Construct(kwargs, ord)
    \/ \E x \in Objs, w \in WaitAnswers, a \in ActAnswers : UiObjectTap(x, w, a)
    \/ \E x \in Objs, w \in WaitAnswers, i \in InfoAnswers, a \in ActAnswers :
          UiObjectLongClick(x, w, i, a)
    \/ \E x \in Objs, ms \in {500, 8}, w \in WaitAnswers, a \in ActAnswers :
          UiObjectDragTo(x, 10, 20, ms, w, a)
    \/ \E x \in Objs, kwargs \in DragKwargs, w \in WaitAnswers, a \in ActAnswers :
       \E ord \in Orders(DOMAIN kwargs) :
          UiObjectDragToSelector(x, kwargs, ord, 500, w, a)
    \/ \E x \in Objs, text \in Texts, w \in WaitAnswers, a \in ActAnswers :
          UiObjectSetText(x, text, w, a)
    \/ \E x \in Objs, w1 \in WaitAnswers, w2 \in WaitAnswers, a \in ActAnswers :
          UiObjectClearText(x, w1, w2, a)

InitUiObject == InitSession /\ rotation = 0

SpecUiObject == InitUiObject /\ [][NextUiObject]_vars

-----------------------------------------------------------------------------
(* Selector: the claims *)

\* C1: in every reachable state the relation-tag sequence and the
\* nested-selector sequence of every Selector have the same length (entry i
\* of one belongs to entry i of the other), also after calls that raised.
C1_RelationsCoIndexed ==
    \A x \in Objs : DOMAIN heap[x].tags = DOMAIN heap[x].sels

\* what set(f, v) leaves behind according to the claim as written: reading f
\* returns v and the bit of f is in the mask
SetReadsBack(x, f, v) ==
    /\ f \in DOMAIN heap'[x].d
    /\ PyEq(heap'[x].d[f], v)
    /\ HasBit(heap'[x].mask, Fields[f])

\* what unset(f) leaves behind: f has no value and no bit, every other field
\* keeps its value and its bit
UnsetClears(x, f) ==
    /\ f \notin DOMAIN heap'[x].d
    /\ ~HasBit(heap'[x].mask, Fields[f])
    /\ \A g \in (DOMAIN Fields) \ {f} :
          /\ (g \in DOMAIN heap'[x].d) = (g \in DOMAIN heap[x].d)
          /\ g \in DOMAIN heap[x].d => heap'[x].d[g] = heap[x].d[g]
          /\ HasBit(heap'[x].mask, Fields[g]) = HasBit(heap[x].mask, Fields[g])

\* C2 as written: for every recognized field f, value v and prior state,
\* after set(f, v) reading f returns v and f's bit is in the mask; after a
\* following unset(f), f has no value, its bit is cleared and all other
\* fields keep their values and bits.
C2_SetReturnsValue ==
    [][/\ last'.op = "set" =>
             \A x \in Objs, it \in Items :
                (it[1] \in DOMAIN Fields /\ SetItem(x, it[1], it[2]))
                    => SetReadsBack(x, it[1], it[2])
       /\ last'.op = "del" =>
             \A x \in Objs, f \in Names :
                (f \in DOMAIN Fields /\ f \in DOMAIN heap[x].d /\ DelItem(x, f))
                    => UnsetClears(x, f)]_vars

\* C2 as amended: for every recognized field f, value v and prior state,
\* set(f, v) stores U(v): reading f returns v itself, except that on Python 2
\* a byte string is read back as the text it decodes to from UTF-8, and a
\* byte string that is not valid UTF-8 makes set raise UnicodeDecodeError and
\* change nothing; when set returns, f's bit is in the mask.  After a
\* following unset(f), f has no value, its bit is cleared and all other
\* fields keep their values and bits.
C2_SetStoresDecodedValue ==
    [][/\ last'.op = "set" =>
           \A x \in Objs, it \in Items :
             (it[1] \in DOMAIN Fields /\ SetItem(x, it[1], it[2])) =>
                 IF py = 2 /\ it[2].t = "bytes" /\ Utf8Decode(it[2].v) = <<-1>>
                 THEN last'.err = "UnicodeDecodeError" /\ heap' = heap
                 ELSE /\ last'.err = "none"
                      /\ it[1] \in DOMAIN heap'[x].d
                      /\ heap'[x].d[it[1]] =
                            (IF py = 2 /\ it[2].t = "bytes"
                             THEN TextVal(Utf8Decode(it[2].v)) ELSE it[2])
                      /\ (py = 3 \/ it[2].t # "bytes") => SetReadsBack(x, it[1], it[2])
                      /\ HasBit(heap'[x].mask, Fields[it[1]])
       /\ last'.op = "del" =>
             \A x \in Objs, f \in Names :
                (f \in DOMAIN Fields /\ f \in DOMAIN heap[x].d /\ DelItem(x, f))
                    => UnsetClears(x, f)]_vars

\* C2, witness: on Python 2 a set of the UTF-8 bytes of e-acute has returned
\* and the field reads back as the one-character text, beside another field
C2_Witness ==
    /\ py = 2
    /\ last.op = "set"
    /\ last.err = "none"
    /\ \E x \in Objs :
          /\ DOMAIN heap[x].d = {"text", "instance"}
          /\ heap[x].d["text"] = TextVal(<<233>>)
          /\ heap[x].mask = 16777217

\* C4: setting a field whose name is not one of the recognized fields (the
\* bookkeeping names mask, childOrSibling and childOrSiblingSelector
\* included) raises ReferenceError, sends nothing to the remote and leaves
\* every Selector as it was.
C4_SetUnknownFieldRejected ==
    [][last'.op = "set" =>
       \A x \in Objs, it \in Items :
          (it[1] \notin DOMAIN Fields /\ SetItem(x, it[1], it[2])) =>
              /\ last'.err = "ReferenceError"
              /\ heap' = heap
              /\ calls' = <<>>]_vars

\* C4, witness: a set has just raised ReferenceError on a Selector that
\* holds a field and a relation
C4_Witness ==
    /\ last.op = "set"
    /\ last.err = "ReferenceError"
    /\ \E x \in Objs : heap[x].mask # 0 /\ heap[x].sels # <<>>

\* C5: unset of a name that is not a recognized field raises ReferenceError,
\* as set does, and leaves the Selector unchanged; it never returns silently.
C5_UnsetUnknownFieldRejected ==
    [][last'.op = "del" =>
       \A x \in Objs, k \in Names :
          (k \notin DOMAIN Fields /\ DelItem(x, k)) =>
              /\ last'.err = "ReferenceError"
              /\ heap' = heap]_vars

\* C3: clone() returns a Selector equal to the original in its fields, mask,
\* relation tags and nested selectors, and leaves every existing object as
\* it was; and a later step that changes the clone or one of the selectors
\* nested in it leaves the original, with its nested selectors, unchanged.
C3_CloneEqualAndIndependent ==
    [][/\ last'.op = "clone" =>
           \A x \in Objs :
             Clone(x) =>
                 /\ Deep(heap', Len(heap) + 1) = Deep(heap, x)
                 /\ \A y \in Objs : heap'[y] = heap[y]
       /\ \A c \in Objs :
             (origin[c] # 0 /\ \E y \in Reach(heap, c) : heap'[y] # heap[y])
                 => Deep(heap', origin[c]) = Deep(heap, origin[c])]_vars

\* C3, witness: a clone of a Selector with a nested selector exists, a set
\* has just run, and the clone's nested selector now differs from the
\* original's nested selector
C3_Witness ==
    /\ last.op = "set"
    /\ \E c \in Objs :
          /\ origin[c] # 0
          /\ c \in Roots(heap)
          /\ heap[c].sels # <<>>
          /\ heap[origin[c]].sels # <<>>
          /\ heap[heap[c].sels[1]].d # heap[heap[origin[c]].sels[1]].d

-----------------------------------------------------------------------------
(* jsonrpc_call: the claims *)

\* the answer is HTTP 200 with a JSON-RPC error object
IsRpcError(resp) == resp.status = 200 /\ resp.error = "object"

\* the element-not-found case: a code in the server-error band and
\* error.data.exceptionTypeName containing "UiObjectNotFoundException"
IsNotFound(resp) ==
    /\ IsRpcError(resp)
    /\ resp.code \in -32099..-32000
    /\ resp.data.present
    /\ "exceptionTypeName" \in resp.data.keys
    /\ Contains(resp.data.exceptionTypeName, "UiObjectNotFoundException")

\* the category table of the claim
ClaimCategory(code) ==
    IF code = -32700 THEN "Parse error"
    ELSE IF code = -32600 THEN "Invalid Request"
    ELSE IF code = -32601 THEN "Method not found"
    ELSE IF code = -32602 THEN "Invalid params"
    ELSE IF code = -32603 THEN "Internal error"
    ELSE IF code \in -32099..-32000 THEN "Server error"
    ELSE "Unknown error"

\* C6: when the remote answers HTTP 200 with a JSON-RPC error in the band
\* -32099..-32000 whose data.exceptionTypeName contains
\* "UiObjectNotFoundException", the call raises UiObjectNotFoundError (a
\* JsonRpcError carrying the error's code and data) and nothing else.
C6_NotFoundRaisesUiObjectNotFoundError ==
    (last.op \in {"tap", "info"} /\ IsNotFound(last.resp)) =>
        /\ last.err = "UiObjectNotFoundError"
        /\ last.code = last.resp.code
        /\ last.data = last.resp.data

\* C7: every other HTTP-200 JSON-RPC error answer, whatever its code and
\* with or without data, makes the call raise JsonRpcError carrying the code
\* and the category the table gives for it.
C7_OtherErrorsRaiseJsonRpcError ==
    (last.op \in {"tap", "info"} /\ IsRpcError(last.resp) /\ ~IsNotFound(last.resp)) =>
        /\ last.err = "JsonRpcError"
        /\ last.code = last.resp.code
        /\ last.category = ClaimCategory(last.resp.code)

-----------------------------------------------------------------------------
(* Session gestures and orientation: the claims *)

\* the largest n with n <= ms * 200 / 1000
TruncSteps(ms) == CHOOSE n \in 0..200 : n * 1000 <= ms * 200 /\ ms * 200 < (n + 1) * 1000

\* the integer nearest to ms * 200 / 1000
RoundSteps(ms) == CHOOSE n \in 0..201 : 2 * n * 1000 - 1000 <= 2 * ms * 200
                                        /\ 2 * ms * 200 < 2 * n * 1000 + 1000

\* the one request swipe, drag and long_click are to send, but for the steps
GestureRequest(l, steps) ==
    Request(IF l.op = "drag" THEN "drag" ELSE "swipe",
            IF l.op = "long_click"
            THEN <<l.args.from[1], l.args.from[2],
                   l.args.from[1] + 1, l.args.from[2] + 1, steps>>
            ELSE <<l.args.from[1], l.args.from[2],
                   l.args.to[1], l.args.to[2], steps>>)

\* C8 as stated: swipe, drag and long_click issue exactly one RPC whose last
\* parameter is round(d * 200), a fractional part of one half or more being
\* rounded up.
C8_StepsRounded ==
    last.op \in {"swipe", "drag", "long_click"} =>
        calls = <<GestureRequest(last, RoundSteps(last.args.ms))>>

\* C8 amended: swipe, drag and long_click issue exactly one RPC whose last
\* parameter is d * 200 truncated toward zero; one second gives 200 steps,
\* half a second 100.
C8_StepsTruncated ==
    last.op \in {"swipe", "drag", "long_click"} =>
        /\ calls = <<GestureRequest(last, TruncSteps(last.args.ms))>>
        /\ last.args.ms = 1000 => calls[1].params[5] = 200
        /\ last.args.ms = 500 => calls[1].params[5] = 100

\* a swipe of 8 ms: the product 1.6 is sent as 1 step
C8_Witness ==
    /\ last.op = "swipe"
    /\ last.args.ms = 8
    /\ calls = <<Request("swipe", <<0, 0, 100, 100, 1>>)>>

\* the table of C9: code, name, abbreviation, degrees
C9Table ==
    << <<0, <<110, 97, 116, 117, 114, 97, 108>>, <<110>>, 0>>,
       <<1, <<108, 101, 102, 116>>, <<108>>, 90>>,
       <<2, <<117, 112, 115, 105, 100, 101, 100, 111, 119, 110>>, <<117>>, 180>>,
       <<3, <<114, 105, 103, 104, 116>>, <<114>>, 270>> >>

\* the entries of which value is the code, name, abbreviation or degrees;
\* a string counts in the flavour the interpreter compares equal to the
\* table's literal
C9Entries(value) ==
    {i \in 1..4 :
        \/ value.t = "int" /\ value.v \in {C9Table[i][1], C9Table[i][4]}
        \/ /\ value.t \in (IF py = 2 THEN {"bytes", "text"} ELSE {"text"})
           /\ value.v \in {C9Table[i][2], C9Table[i][3]}}

\* C9: set_orientation with an entry's code, name, abbreviation or degrees
\* sends setOrientation with the entry's name, the stub remote then reports
\* the entry's code and the getter returns the name; a value that is none of
\* the sixteen representations raises ValueError and sends nothing.
C9_OrientationRoundTrip ==
    [][ /\ last'.op = "set_orientation" =>
            \A i \in 1..4 :
               /\ i \in C9Entries(last'.args) =>
                    /\ Len(calls') = 1
                    /\ calls'[1].method = "setOrientation"
                    /\ calls'[1].params = <<Native(C9Table[i][2])>>
                    /\ last'.err = "none" => rotation' = C9Table[i][1]
               /\ C9Entries(last'.args) = {} =>
                    last'.err = "ValueError" /\ calls' = <<>>
        /\ (last.op = "set_orientation" /\ last.err = "none"
            /\ last'.op = "orientation" /\ last'.err = "none") =>
             \E i \in C9Entries(last.args) : last'.ret = Native(C9Table[i][2])
      ]_vars

\* set by degrees, then read: 180 reads back as "upsidedown"
C9_Witness ==
    /\ last.op = "orientation"
    /\ last.err = "none"
    /\ rotation = 2
    /\ last.ret = Native(<<117, 112, 115, 105, 100, 101, 100, 111, 119, 110>>)

-----------------------------------------------------------------------------
(* app_install: the claims *)

\* a poll has been answered in this step
Polled == Len(inst'.polled) = Len(inst.polled) + 1

\* the messages of the responses polled so far
Messages == [k \in 1..Len(inst.polled) |-> inst.polled[k].message]

-----------------------------------------------------------------------------
(* UiObject: the claims *)

\* the operations that wait for the element first
WaitOps == {"UiObject.tap", "UiObject.long_click", "UiObject.drag_to",
            "UiObject.set_text", "UiObject.clear_text"}

\* the positions of the waitForExists requests in the trace of the call
WaitCalls == {k \in 1..Len(calls) : calls[k].method = "waitForExists"}

\* the answer is a success
Returned(a) == a.resp.status = 200 /\ a.resp.error \in {"absent", "empty"}

\* C11: the RPC trace of one wait-sensitive operation is exactly one
\* waitForExists on the object's selector with timeout wait_timeout, first,
\* and only then the action RPCs; the action is issued whether the wait
\* returned true or false; an element-not-found error answered to the action
\* reaches the caller as UiObjectNotFoundError.
C11_OneWaitThenAction ==
    last.op \in WaitOps =>
        /\ calls[1] = Request("waitForExists", <<heap[last.obj], 20 * 1000>>)
        /\ WaitCalls = {1}
        /\ (Returned(last.answers[1]) /\ last.err \notin {"ReferenceError", "UnicodeDecodeError"}) =>
              Len(calls) >= 2
        /\ (Len(last.answers) >= 2 /\ IsNotFound(last.answers[Len(last.answers)].resp)) =>
              last.err = "UiObjectNotFoundError"

-----------------------------------------------------------------------------
(* app_install: the claims on the polling delay *)

\* the number of 'installing' responses that end p
InstallingRun(p) ==
    CHOOSE k \in 0..Len(p) :
        /\ \A j \in (Len(p) - k + 1)..Len(p) : p[j].message = "installing"
        /\ k = Len(p) \/ p[Len(p) - k].message # "installing"

\* the time, after a poll, until the next one may be issued
Delay(i) == i.next_refresh - i.now

\* C12 as stated: the first poll is not delayed; the delay scheduled after a
\* 'downloading' response is 1 time-unit; after the k-th 'installing'
\* response in a row it has doubled k times (2, 4, ... time-units); after
\* any other response that leaves the call polling it is at least the
\* starting delay; no poll is issued before the scheduled time.
C12_DelayDoubles ==
    [][ /\ Polled => inst.now >= inst.next_refresh
        /\ (Polled /\ inst'.pc = "loop") =>
             LET r == inst'.polled[Len(inst'.polled)] IN
             /\ r.message = "downloading" => Delay(inst') = 1 * TicksPerSecond
             /\ r.message = "installing" =>
                  Delay(inst') = (2 ^ InstallingRun(inst'.polled)) * TicksPerSecond
             /\ r.message \notin {"downloading", "installing"} =>
                  Delay(inst') >= 1 * TicksPerSecond
        /\ (inst.pc = "loop" /\ ~Polled) =>
             inst'.next_refresh = inst.next_refresh /\ inst'.now >= inst.now
      ]_vars

\* C12 amended: the first poll is not delayed; the delay scheduled after a
\* 'downloading' response is 1 time-unit and after every 'installing'
\* response 2 time-units, however many came before; a response with another
\* message that leaves the call polling schedules nothing, so that the next
\* poll is due at once; the interval stays at 1 time-unit; no poll is issued
\* before the scheduled time.
C12_DelayFlat ==
    [][ /\ Polled => inst.now >= inst.next_refresh
        /\ (inst.pc = "idle" /\ inst'.pc = "loop") => Delay(inst') = 0
        /\ inst'.pc = "loop" => inst'.interval = 1 * TicksPerSecond
        /\ (Polled /\ inst'.pc = "loop") =>
             LET r == inst'.polled[Len(inst'.polled)] IN
             /\ r.message = "downloading" => Delay(inst') = 1 * TicksPerSecond
             /\ r.message = "installing" => Delay(inst') = 2 * TicksPerSecond
             /\ r.message \notin {"downloading", "installing"} =>
                  inst'.next_refresh = inst.next_refresh /\ Delay(inst') <= 0
        /\ (inst.pc = "loop" /\ ~Polled) =>
             /\ inst'.next_refresh = inst.next_refresh
             /\ inst'.now > inst.now
             /\ inst.now < inst.next_refresh
      ]_vars

\* two 'installing' responses in a row have been polled, the second one
\* 2 time-units after the first, and the third poll is due 2 time-units on
C12_Witness ==
    /\ inst.pc = "loop"
    /\ Messages = <<"installing", "installing">>
    /\ inst.now = 2 * TicksPerSecond
    /\ inst.next_refresh = 4 * TicksPerSecond

====
